---- MODULE Spec2Model ----
(***************************************************************************)
(* State-machine model of main.py: the window partitioner                  *)
(* (parse_with_parts), the range walker (parse_by_date_range), the record  *)
(* filter and the SQLite store (save_to_db), and the part of main() that   *)
(* drives them.                                                            *)
(*                                                                         *)
(* A calendar date "YYYY-MM-DD" is the tuple <<y, m, d>>; a rendered       *)
(* instant "YYYY-MM-DDThh:mm:ss" is <<y, m, d, hh, mm, ss>>.  An employer  *)
(* id is a sequence of one-character strings.  An optional JSON field      *)
(* (null or absent) is a sequence of length 0 or 1.                        *)
(***************************************************************************)
EXTENDS Integers, Sequences, FiniteSets, TLC

(* ------------------------------ bounds -------------------------------- *)
\* longest master range (in days past the start date), partition scenario
MaxDays == 10
\* largest value of parts, partition scenario
MaxParts == 5
\* longest master range (in days past the start date), ingestion scenario
RunDays == 1
\* largest value of parts, ingestion scenario
RunParts == 2
\* most postings on one response page
MaxItems == 2
\* largest page count the upstream reports in the ingestion scenario
MaxPages == 2
\* how far above the ceiling the reported page counts go, ceiling scenario
OverCeiling == 2

(* ------------------------- program constants -------------------------- *)
\* main.py:354  if page >= 200
PAGE_LIMIT == 200

\* main.py:29-37
EXCLUDED_EMPLOYEE_IDS ==
    { 3177, 999442, 9330017, 10871726, 3443127, 2657797, 6153907, 2156474, 1545374,
      2553761, 1498795, 1999994, 5481550, 9579070, 3112459, 10004751, 11842692,
      3089914, 10623824, 9860737, 4263964, 9623282, 2899434, 3094193, 5830512,
      57073, 11056965, 4174021, 10753971, 1729313, 2022372, 5388489, 1740, 10753971,
      5805688, 611692, 4263964, 4856020, 3390849, 5302705, 5547644, 10753971,
      11571595, 11124587, 10321769, 11695543, 4671816, 2732037, 4333013, 11807162,
      2800609, 11807162, 5193393, 1141344, 9330017, 5687059, 3315744 }

(* ------------------- datetime (strptime, timedelta) ------------------- *)
IsLeap(y) == y % 4 = 0 /\ (y % 100 # 0 \/ y % 400 = 0)

DaysInMonth(y, m) ==
    IF m = 2 THEN (IF IsLeap(y) THEN 29 ELSE 28)
    ELSE IF m \in {4, 6, 9, 11} THEN 30 ELSE 31

DaysBeforeMonthTable == <<0, 31, 59, 90, 120, 151, 181, 212, 243, 273, 304, 334>>

DaysBeforeMonth(y, m) ==
    DaysBeforeMonthTable[m] + (IF m > 2 /\ IsLeap(y) THEN 1 ELSE 0)

DaysBeforeYear(y) ==
    (y - 1) * 365 + ((y - 1) \div 4) - ((y - 1) \div 100) + ((y - 1) \div 400)

\* datetime -> proleptic Gregorian ordinal (what date subtraction works on)
ToOrdinal(dt) == DaysBeforeYear(dt[1]) + DaysBeforeMonth(dt[1], dt[2]) + dt[3]

\* ordinal -> datetime (what adding a timedelta ends with)
FromOrdinal(ord) ==
    LET n0   == ord - 1
        n400 == n0 \div 146097
        r400 == n0 % 146097
        n100 == r400 \div 36524
        r100 == r400 % 36524
        n4   == r100 \div 1461
        r4   == r100 % 1461
        n1   == r4 \div 365
        n    == r4 % 365
        year == n400 * 400 + 1 + n100 * 100 + n4 * 4 + n1
    IN  IF n1 = 4 \/ n100 = 4
        THEN <<year - 1, 12, 31>>
        ELSE LET leap   == n1 = 3 /\ (n4 # 24 \/ n100 = 3)
                 guess  == (n + 50) \div 32
                 before == DaysBeforeMonthTable[guess]
                               + (IF guess > 2 /\ leap THEN 1 ELSE 0)
                 month  == IF before > n THEN guess - 1 ELSE guess
                 prec   == IF before > n
                           THEN before - (DaysInMonth(year, month))
                           ELSE before
             IN  <<year, month, n - prec + 1>>

\* dt + timedelta(days=k)
AddDays(dt, k) == FromOrdinal(ToOrdinal(dt) + k)

\* (a - b).days
DaysBetween(a, b) == ToOrdinal(a) - ToOrdinal(b)

\* a < b on datetimes (field by field)
DtLess(a, b) ==
    \/ a[1] < b[1]
    \/ a[1] = b[1] /\ a[2] < b[2]
    \/ a[1] = b[1] /\ a[2] = b[2] /\ a[3] < b[3]

\* datetime.strptime(s, "%Y-%m-%d")
Strptime(s) == <<s[1], s[2], s[3]>>

\* dt.strftime("%Y-%m-%dT00:00:00") and dt.strftime("%Y-%m-%dT23:59:59")
StrftimeStartOfDay(dt) == <<dt[1], dt[2], dt[3], 0, 0, 0>>
StrftimeEndOfDay(dt) == <<dt[1], dt[2], dt[3], 23, 59, 59>>

(* ----------------------- record filter (save_to_db) -------------------- *)
Digits == {"0", "1", "2", "3", "4", "5", "6", "7", "8", "9"}

\* employer_id and employer_id.isdigit()
IsDigitString(s) == Len(s) > 0 /\ \A j \in 1..Len(s) : s[j] \in Digits

DigitValue(c) ==
    CASE c = "0" -> 0 [] c = "1" -> 1 [] c = "2" -> 2 [] c = "3" -> 3 [] c = "4" -> 4
      [] c = "5" -> 5 [] c = "6" -> 6 [] c = "7" -> 7 [] c = "8" -> 8 [] c = "9" -> 9

\* int(employer_id) for a string of digits
RECURSIVE IntOf(_)
IntOf(s) ==
    IF Len(s) = 0 THEN 0
    ELSE IntOf(SubSeq(s, 1, Len(s) - 1)) * 10 + DigitValue(s[Len(s)])

\* variant: the id is compared as text with the listed numbers as text
EmployerExcludedAsText(vac) ==
    /\ IsDigitString(vac.employer_id)
    /\ vac.employer_id[1] # "0"
    /\ IntOf(vac.employer_id) \in EXCLUDED_EMPLOYEE_IDS

\* the first `continue`: the employer is on the exclusion list
EmployerExcluded(vac) ==
    /\ IsDigitString(vac.employer_id)
    /\ IntOf(vac.employer_id) \in EXCLUDED_EMPLOYEE_IDS

\* email / phones_arr as read from vac["contacts"] (null contacts: "", [])
EmailOf(vac) == IF Len(vac.contacts) > 0 THEN vac.contacts[1].email ELSE ""
PhonesOf(vac) == IF Len(vac.contacts) > 0 THEN vac.contacts[1].phones ELSE <<>>
ContactNameOf(vac) == IF Len(vac.contacts) > 0 THEN vac.contacts[1].name ELSE ""

\* has_contacts after the loop over phones_arr
HasContacts(vac) == \E j \in 1..Len(PhonesOf(vac)) : PhonesOf(vac)[j].number # ""

\* variant: not email or not has_contacts
NoContactInfoEither(vac) == EmailOf(vac) = "" \/ ~HasContacts(vac)

\* the second `continue`: not email and not has_contacts
NoContactInfo(vac) == EmailOf(vac) = "" /\ ~HasContacts(vac)

\* variant: the first `continue` is missing
AcceptedWithoutExclusion(vac) == ~NoContactInfo(vac)

\* the posting reaches the INSERT
Accepted(vac) == ~EmployerExcluded(vac) /\ ~NoContactInfo(vac)

\* f"+{country} ({city_code}) {number}"
PhoneFull(ph) == <<"+", ph.country, " (", ph.city, ") ", ph.number>>

\* the tuple bound to the INSERT (phones stays the list that is joined)
RowOf(vac) ==
    [ id           |-> vac.id,
      vacancy_name |-> vac.name,
      employer_id  |-> vac.employer_id,
      contact_name |-> ContactNameOf(vac),
      phones       |-> [j \in 1..Len(PhonesOf(vac)) |-> PhoneFull(PhonesOf(vac)[j])],
      email        |-> EmailOf(vac) ]

\* variant: INSERT OR REPLACE
InsertOrReplace(table, row) == {r \in table : r.id # row.id} \cup {row}

\* INSERT OR IGNORE INTO hh_vacancies: id is the primary key
InsertOrIgnore(table, row) ==
    IF \E r \in table : r.id = row.id THEN table ELSE table \cup {row}

(* ----------------------------- upstream ------------------------------- *)
Phone(number) == [country |-> "7", city |-> "495", number |-> number]
Contacts(name, email, phones) == <<[name |-> name, email |-> email, phones |-> phones]>>
Posting(id, name, employer_id, contacts) ==
    [id |-> id, name |-> name, employer_id |-> employer_id, contacts |-> contacts]

\* e-mail only, employer not on the list
vEmail == Posting("a", "amoCRM manager", <<"4", "2">>, Contacts("Ann", "hr@a.example", <<>>))
\* same id as vEmail, other fields; phone only; employer id is not all digits
vPhone == Posting("a", "amoCRM manager (upd)", <<"+", "1", "7", "4", "0">>,
                  Contacts("", "", <<Phone(""), Phone("1234567")>>))
\* employer 3177 is on the list, full contacts
vExcluded == Posting("b", "integrator", <<"3", "1", "7", "7">>,
                     Contacts("Bob", "hr@b.example", <<Phone("7654321")>>))
\* employer "01740" reads as 1740, which is on the list
vExcludedZero == Posting("c", "developer", <<"0", "1", "7", "4", "0">>,
                         Contacts("", "", <<Phone("5550101")>>))
\* contacts: null
vNoContacts == Posting("d", "analyst", <<"4", "2">>, <<>>)
\* same id as vExcluded; no employer id, empty e-mail, only empty phone numbers
vEmptyPhones == Posting("b", "support", <<>>, Contacts("Eve", "", <<Phone(""), Phone("")>>))
\* employer not on the list, e-mail and phone
vBoth == Posting("b", "sales", <<"1", "7", "4", "1">>,
                 Contacts("Bea", "bea@b.example", <<Phone("2223344")>>))

Postings(kind) ==
    IF kind = "varied"
    THEN {vEmail, vPhone, vExcluded, vExcludedZero, vNoContacts, vEmptyPhones, vBoth}
    ELSE {vNoContacts}

RECURSIVE SeqsUpTo(_, _)
SeqsUpTo(S, n) ==
    IF n = 0 THEN {<<>>}
    ELSE LET shorter == SeqsUpTo(S, n - 1)
         IN  shorter \cup {Append(q, x) : q \in {t \in shorter : Len(t) = n - 1}, x \in S}

\* the "items" lists a response may carry
ItemLists(kind) ==
    IF kind = "varied" THEN SeqsUpTo(Postings(kind), MaxItems)
    ELSE SeqsUpTo(Postings(kind), 1)

\* the "pages" field a response may carry (<<>>: the field is missing)
PageCounts(kind) ==
    IF kind = "deep"
    THEN {<<>>} \cup {<<p>> : p \in (PAGE_LIMIT + 1)..(PAGE_LIMIT + OverCeiling)}
    ELSE IF kind = "mixed"
    THEN {<<>>} \cup {<<p>> : p \in 0..MaxPages}
               \cup {<<p>> : p \in (PAGE_LIMIT - 1)..(PAGE_LIMIT + OverCeiling)}
    ELSE IF kind = "varied" THEN {<<>>} \cup {<<p>> : p \in 1..MaxPages}
    ELSE {<<>>, <<1>>}

(* ------------------------------- state -------------------------------- *)
VARIABLES
    date_from,      \* parse_with_parts argument, "YYYY-MM-DD"
    date_to,        \* parse_with_parts argument, "YYYY-MM-DD"
    parts,          \* parse_with_parts argument
    upstream,       \* which responses the upstream API gives in this run
    pc,             \* where the (single-threaded) process is
    i,              \* loop variable of `for i in range(parts)`
    current_start,  \* parse_with_parts local
    current_end,    \* parse_with_parts local
    windows,        \* the (date_from, date_to) pairs handed to parse_by_date_range
    page,           \* parse_by_date_range local
    total_saved,    \* parse_by_date_range local
    data,           \* parse_by_date_range local: the last response body
    req,            \* the request in flight, if any
    reqCount,       \* requests issued so far for the current window
    k,              \* save_to_db: 1-based position in `vacancies`
    txn,            \* save_to_db: the table as the open connection sees it
    store,          \* the committed rows of hh_vacancies
    conn,           \* the sqlite3 connection of init_db / save_to_db
    access_token,   \* main's access_token, the argument of parse_with_parts
    refreshes,      \* calls of refresh_hh_token made by main
    failed          \* a page fetch of this run got an HTTP error

vars == <<date_from, date_to, parts, upstream, pc, i, current_start, current_end,
          windows, page, total_saved, data, req, reqCount, k, txn, store,
          conn, access_token, refreshes, failed>>

inputVars == <<date_from, date_to, parts, upstream, access_token>>
partVars == <<i, current_start, current_end, windows>>
walkVars == <<page, total_saved, data, req, reqCount>>
saveVars == <<k, txn, store, conn>>

(* ------------------------- parse_with_parts --------------------------- *)
dt_start == Strptime(date_from)
dt_end == Strptime(date_to)
total_days == DaysBetween(dt_end, dt_start) + 1
days_per_part == total_days \div parts
remainder == total_days % parts

\* variant: the date check is missing
ValidInputNoDateCheck(from, to, n) == ~(n <= 0)

\* neither early return of parse_with_parts is taken
ValidInput(from, to, n) == ~DtLess(to, from) /\ ~(n <= 0)

\* variant: i <= remainder
ExtraOffByOne(idx, rem) == IF idx <= rem THEN 1 ELSE 0

\* extra = 1 if i < remainder else 0
Extra(idx, rem) == IF idx < rem THEN 1 ELSE 0

\* if current_end > dt_end: current_end = dt_end
ClampEnd(end, last) == IF DtLess(last, end) THEN last ELSE end

\* variant: the loop has no early exit
PastEndIgnored(start, last) == FALSE

\* variant: current_start >= dt_end
PastEndInclusive(start, last) == ~DtLess(start, last)

\* if current_start > dt_end: break
PastEnd(start, last) == DtLess(last, start)

(* ------------------------ parse_by_date_range ------------------------- *)
\* variant: the header is built from a fixed token, not from the argument
RequestHeadersFixedToken(token) == [Authorization |-> <<"Bearer ", "token-1">>]

\* "Authorization": f"Bearer {access_token}"
RequestHeaders(token) == [Authorization |-> <<"Bearer ", token>>]

\* variant: the test for an empty page is missing
NoVacanciesIgnored(items) == FALSE

\* if not vacancies: ... break
NoVacancies(items) == items = <<>>

\* variant: the increment is missing
NextPageIndexStuck(p) == p

\* page += 1
NextPageIndex(p) == p + 1

\* data.get("pages", 1)
PagesOf(body) == IF Len(body.pages) > 0 THEN body.pages[1] ELSE 1

\* variant: page > data.get("pages", 1)
LastPageReachedStrict(p, body) == p > PagesOf(body)

\* if page >= data.get("pages", 1): break
LastPageReached(p, body) == p >= PagesOf(body)

\* variant: page > 200
PageCeilingOffByOne(p) == p > PAGE_LIMIT

\* if page >= 200: break
PageCeiling(p) == p >= PAGE_LIMIT

\* variant: raise_for_status() is missing, the error body has no "items"
AfterHttpErrorSwallowed == "walk_done"

\* variant: the except clause does not re-raise
AfterRefreshSwallowed == "returned"

\* main: the bare `raise` that ends the except clause
AfterRefresh == "raised"

\* response.raise_for_status() on an error response: the HttpError leaves
\* parse_by_date_range and parse_with_parts and reaches main's except clause
AfterHttpError == "http_error"

(* ----------------------------- save_to_db ----------------------------- *)
\* variant: conn.close() is missing
ConnAfterCommitLeftOpen == "open"

\* conn.close() after conn.commit()
ConnAfterCommit == "closed"

\* variant: the connection autocommits every statement
StoreAfterExecuteAutocommit(committed, view) == view

\* the committed table after a cursor.execute(INSERT ...): the connection is
\* in an implicit transaction, nothing is committed before conn.commit()
StoreAfterExecute(committed, view) == committed

\* the statements of save_to_db that touch the database at position pos:
\* connect (before the first record), execute (an accepted record), commit
DatabaseSteps(items) ==
    {1, Len(items) + 1} \cup {j \in 1..Len(items) : Accepted(items[j])}

\* number of postings of a page that reach the INSERT
AcceptedCount(items) == Cardinality({j \in 1..Len(items) : Accepted(items[j])})

(* ------------------------------- Init --------------------------------- *)
\* `data` before the first response of a walk
NoResponse == [items |-> <<>>, pages |-> <<>>]

\* what get_hh_token() may have returned
Tokens == {"token-1", "token-2"}

StartDates == {<<2024, 1, 1>>, <<2024, 2, 27>>, <<2023, 12, 28>>}

InitLocals ==
    /\ pc = "entry"
    /\ i = 0
    /\ current_start = Strptime(date_from)
    /\ current_end = Strptime(date_from)
    /\ windows = <<>>
    /\ page = 0
    /\ total_saved = 0
    /\ data = NoResponse
    /\ req = <<>>
    /\ reqCount = 0
    /\ k = 1
    /\ txn = {}
    /\ store = {}
    /\ conn = "closed"
    /\ refreshes = 0
    /\ failed = FALSE

\* ingestion scenario: one valid range (and the invalid inputs next to it),
\* varied postings, small page counts
Init ==
    /\ upstream = "varied"
    /\ access_token = "token-1"
    /\ date_from = <<2024, 2, 28>>
    /\ date_to \in {AddDays(date_from, d) : d \in {-1, RunDays}}
    /\ parts \in {-1, 0, RunParts}
    /\ InitLocals

\* partition scenario: many (start, end, parts), one rejected posting at most
InitPartition ==
    /\ upstream = "sparse"
    /\ access_token \in Tokens
    /\ date_from \in StartDates
    /\ date_to \in {AddDays(date_from, d) : d \in -2..MaxDays}
    /\ parts \in -1..MaxParts
    /\ InitLocals

\* ceiling scenario: the upstream always reports more pages than the ceiling
InitCeiling ==
    /\ upstream = "deep"
    /\ access_token = "token-1"
    /\ date_from = <<2024, 2, 28>>
    /\ date_to \in {AddDays(date_from, d) : d \in 0..RunDays}
    /\ parts \in 1..RunParts
    /\ InitLocals

\* walk scenario: reported page counts small, near and above the ceiling
InitWalk ==
    /\ upstream = "mixed"
    /\ access_token = "token-1"
    /\ date_from = <<2024, 2, 28>>
    /\ date_to \in {AddDays(date_from, d) : d \in 0..RunDays}
    /\ parts \in 1..RunParts
    /\ InitLocals

(* ------------------------------ actions ------------------------------- *)
\* parse_with_parts up to the loop: the two checks and the day arithmetic
ParseWithParts ==
    /\ pc = "entry"
    /\ IF ValidInput(dt_start, dt_end, parts)
       THEN /\ pc' = "loop"
            /\ i' = 0
            /\ current_start' = dt_start
       ELSE /\ pc' = "returned"
            /\ UNCHANGED <<i, current_start>>
    /\ UNCHANGED <<current_end, windows, failed, refreshes>>
    /\ UNCHANGED <<inputVars, walkVars, saveVars>>

\* one iteration of the loop up to the call of parse_by_date_range, and the
\* first lines of parse_by_date_range
BeginWindow ==
    /\ pc = "loop"
    /\ LET end == ClampEnd(AddDays(current_start,
                                   days_per_part + Extra(i, remainder) - 1), dt_end)
       IN  /\ current_end' = end
           /\ windows' = Append(windows,
                                [date_from |-> StrftimeStartOfDay(current_start),
                                 date_to   |-> StrftimeEndOfDay(end)])
    /\ page' = 0
    /\ total_saved' = 0
    /\ reqCount' = 0
    /\ pc' = "request"
    /\ UNCHANGED <<i, current_start, data, req, failed, refreshes>>
    /\ UNCHANGED <<inputVars, saveVars>>

\* requests.get(HH_API_URL, params=params, headers=headers)
SendRequest ==
    /\ pc = "request"
    /\ req' = <<[page      |-> page,
                 date_from |-> windows[Len(windows)].date_from,
                 date_to   |-> windows[Len(windows)].date_to,
                 headers   |-> RequestHeaders(access_token)]>>
    /\ reqCount' = reqCount + 1
    /\ pc' = "await"
    /\ UNCHANGED <<page, total_saved, data, failed, refreshes>>
    /\ UNCHANGED <<inputVars, partVars, saveVars>>

\* the response is an HTTP error: raise_for_status() raises
ReceiveError ==
    /\ pc = "await"
    /\ req' = <<>>
    /\ failed' = TRUE
    /\ pc' = AfterHttpError
    /\ UNCHANGED <<page, total_saved, data, reqCount, refreshes>>
    /\ UNCHANGED <<inputVars, partVars, saveVars>>

\* the response is a result page; empty items end the walk, otherwise
\* save_to_db is entered and connects
ReceiveOk ==
    /\ pc = "await"
    /\ \E items \in ItemLists(upstream), pages \in PageCounts(upstream) :
          /\ data' = [items |-> items, pages |-> pages]
          /\ pc' = IF NoVacancies(items) THEN "walk_done" ELSE "save"
          /\ conn' = IF NoVacancies(items) THEN conn ELSE "open"
    /\ req' = <<>>
    /\ k' = 1
    /\ txn' = store
    /\ UNCHANGED <<page, total_saved, reqCount, store, failed, refreshes>>
    /\ UNCHANGED <<inputVars, partVars>>

\* one iteration of `for vac in vacancies`
SaveRecord ==
    /\ pc = "save"
    /\ k <= Len(data.items)
    /\ LET vac  == data.items[k]
           view == IF Accepted(vac) THEN InsertOrIgnore(txn, RowOf(vac)) ELSE txn
       IN  /\ txn' = view
           /\ store' = StoreAfterExecute(store, view)
    /\ k' = k + 1
    /\ UNCHANGED <<pc, conn>>
    /\ UNCHANGED <<failed, refreshes, inputVars, partVars, walkVars>>

\* connect, an INSERT or the commit raises: the exception leaves save_to_db
\* with the transaction open, nobody catches it, the connection is dropped
\* and its uncommitted changes with it
SaveFail ==
    /\ pc = "save"
    /\ k \in DatabaseSteps(data.items)
    /\ txn' = store
    /\ conn' = "dropped"
    /\ pc' = "store_error"
    /\ UNCHANGED <<k, store, failed, refreshes>>
    /\ UNCHANGED <<inputVars, partVars, walkVars>>

\* conn.commit(); conn.close()
SaveCommit ==
    /\ pc = "save"
    /\ k = Len(data.items) + 1
    /\ store' = txn
    /\ conn' = ConnAfterCommit
    /\ pc' = "saved"
    /\ UNCHANGED <<k, txn, failed, refreshes>>
    /\ UNCHANGED <<page, total_saved, data, req, reqCount>>
    /\ UNCHANGED <<inputVars, partVars>>

\* back in parse_by_date_range: count, next page, the two termination tests.
\* When the loop goes round, `data` is dead (it is assigned again before it is
\* read), so the model forgets it.
NextPage ==
    /\ pc = "saved"
    /\ total_saved' = total_saved + Len(data.items)
    /\ page' = NextPageIndex(page)
    /\ IF LastPageReached(NextPageIndex(page), data)
       THEN pc' = "walk_done" /\ UNCHANGED data
       ELSE IF PageCeiling(NextPageIndex(page))
       THEN pc' = "walk_done" /\ UNCHANGED data
       ELSE pc' = "request" /\ data' = NoResponse
    /\ UNCHANGED <<req, reqCount, failed, refreshes>>
    /\ UNCHANGED <<inputVars, partVars, saveVars>>

\* the walk of the window is over: the closing print and the return (the
\* locals of parse_by_date_range are gone), then the rest of the loop body of
\* parse_with_parts and the loop test
EndWalk ==
    /\ pc = "walk_done"
    /\ current_start' = AddDays(current_end, 1)
    /\ IF PastEnd(AddDays(current_end, 1), dt_end)
       THEN pc' = "returned" /\ UNCHANGED i
       ELSE IF i + 1 < parts
            THEN pc' = "loop" /\ i' = i + 1
            ELSE pc' = "returned" /\ UNCHANGED i
    /\ page' = 0 /\ total_saved' = 0 /\ data' = NoResponse
    /\ UNCHANGED <<current_end, windows, failed, refreshes>>
    /\ UNCHANGED <<req, reqCount>>
    /\ UNCHANGED <<inputVars, saveVars>>

\* main: parse_last_1_months returned, export_to_google_sheets() runs
MainExport ==
    /\ pc = "returned"
    /\ pc' = "exported"
    /\ UNCHANGED <<failed, refreshes, inputVars, partVars, walkVars, saveVars>>

\* main: except HttpRequestError: print, refresh the token, re-raise
MainRefresh ==
    /\ pc = "http_error"
    /\ refreshes' = refreshes + 1
    /\ pc' = AfterRefresh
    /\ UNCHANGED <<failed, inputVars, partVars, walkVars, saveVars>>

Next ==
    \/ ParseWithParts
    \/ BeginWindow
    \/ SendRequest
    \/ ReceiveError
    \/ ReceiveOk
    \/ SaveRecord
    \/ SaveFail
    \/ SaveCommit
    \/ NextPage
    \/ EndWalk
    \/ MainExport
    \/ MainRefresh

Spec == Init /\ [][Next]_vars
SpecPartition == InitPartition /\ [][Next]_vars
SpecCeiling == InitCeiling /\ [][Next]_vars
\* the process runs on as long as it can and every request is answered
SpecWalk == InitWalk /\ [][Next]_vars /\ WF_vars(Next)

(* ====================== properties of the partitioner ================= *)
\* the calendar day (as an ordinal) a rendered instant falls on
DayOf(instant) == ToOrdinal(<<instant[1], instant[2], instant[3]>>)
FirstDay(w) == DayOf(w.date_from)
LastDay(w) == DayOf(w.date_to)
DayCount(w) == LastDay(w) - FirstDay(w) + 1

\* the arguments pass both checks
InputIsValid == ToOrdinal(date_to) >= ToOrdinal(date_from) /\ parts > 0
\* inclusive day count of the master range
RangeDays == ToOrdinal(date_to) - ToOrdinal(date_from) + 1
\* parse_with_parts has returned normally
Returned == pc \in {"returned", "exported"}

\* C1: for valid input the windows handed to parse_by_date_range start at the
\* start date, each starts the day after the previous one ends (start of day
\* to end of day), and once parse_with_parts has returned they end at the end
\* date, every day of [start, end] lies in exactly one window, and the day
\* counts of any two windows differ by at most one.
C1_PartitionCoverage ==
    InputIsValid =>
        /\ Len(windows) > 0 => windows[1].date_from = StrftimeStartOfDay(date_from)
        /\ \A j \in 1..Len(windows) :
              /\ SubSeq(windows[j].date_from, 4, 6) = <<0, 0, 0>>
              /\ SubSeq(windows[j].date_to, 4, 6) = <<23, 59, 59>>
              /\ j > 1 => FirstDay(windows[j]) = LastDay(windows[j - 1]) + 1
        /\ Returned =>
              /\ Len(windows) > 0
              /\ windows[Len(windows)].date_to = StrftimeEndOfDay(date_to)
              /\ \A d \in ToOrdinal(date_from)..ToOrdinal(date_to) :
                    Cardinality({j \in 1..Len(windows) :
                        FirstDay(windows[j]) <= d /\ d <= LastDay(windows[j])}) = 1
              /\ \A a, b \in 1..Len(windows) :
                    DayCount(windows[a]) - DayCount(windows[b]) <= 1

\* a returned run over a range that does not divide evenly, three windows or more
C1_Witness ==
    /\ InputIsValid /\ Returned
    /\ Len(windows) >= 3
    /\ RangeDays % parts # 0
    /\ DayCount(windows[1]) # DayCount(windows[Len(windows)])

\* the day count the remainder rule gives the j-th window (1-based)
RuleDays(j) == (RangeDays \div parts) + (IF j <= RangeDays % parts THEN 1 ELSE 0)

\* the example of the specification
ExampleInput == date_from = <<2024, 1, 1>> /\ date_to = <<2024, 1, 10>> /\ parts = 3
ExampleWindows ==
    << [date_from |-> <<2024, 1, 1, 0, 0, 0>>, date_to |-> <<2024, 1, 4, 23, 59, 59>>],
       [date_from |-> <<2024, 1, 5, 0, 0, 0>>, date_to |-> <<2024, 1, 7, 23, 59, 59>>],
       [date_from |-> <<2024, 1, 8, 0, 0, 0>>, date_to |-> <<2024, 1, 10, 23, 59, 59>>] >>

C9_InvalidInputDoesNothing ==
    ~InputIsValid =>
        /\ windows = <<>>
        /\ reqCount = 0 /\ req = <<>>
        /\ store = {} /\ txn = {}
        /\ pc \in {"entry", "returned", "exported"}

\* parse_with_parts has returned on an inverted range
C9_Witness == ToOrdinal(date_to) < ToOrdinal(date_from) /\ parts > 0 /\ pc = "returned"

(* ================= properties of the walker and the store ============= *)
\* the employer id is a string of digits whose value is on the exclusion list
OnExclusionList(employer_id) ==
    /\ Len(employer_id) > 0
    /\ \A j \in 1..Len(employer_id) : employer_id[j] \in Digits
    /\ IntOf(employer_id) \in EXCLUDED_EMPLOYEE_IDS

\* no two rows of the table share an id
UniqueIds(table) == \A a, b \in table : a.id = b.id => a = b

\* C2: every step keeps every committed row as it is (none updated, none
\* deleted), keeps at most one row per id, and inside a save keeps every row
\* the connection already sees: a posting whose id is present changes nothing.
C2_StoreIdempotence ==
    [][ /\ \A r \in store : r \in store'
        /\ UniqueIds(store')
        /\ (pc = "save" /\ pc' \in {"save", "saved"}) =>
              /\ \A r \in txn : r \in txn'
              /\ UniqueIds(txn') ]_vars

\* a second window has saved a page with an accepted posting whose id was
\* already stored with other fields
C2_Witness ==
    /\ pc = "saved"
    /\ Len(windows) >= 2
    /\ \E j \in 1..Len(data.items) :
          /\ ~OnExclusionList(data.items[j].employer_id)
          /\ EmailOf(data.items[j]) # ""
          /\ RowOf(data.items[j]) \notin store
          /\ \E r \in store : r.id = data.items[j].id

\* C3: at most 200 page requests are issued for one window and the page
\* index of a request is within 0..199, whatever page counts are reported.
C3_CeilingEnforced ==
    /\ reqCount <= 200
    /\ \A j \in 1..Len(req) : req[j].page \in 0..199

\* the walk of a window ended at the ceiling while more pages were reported
C3_Witness ==
    /\ pc = "walk_done"
    /\ reqCount = 200
    /\ page = 200
    /\ Len(data.pages) > 0 /\ data.pages[1] > 200
    /\ data.items # <<>>

\* C4: no row, committed or pending, carries an employer id that reads as a
\* number of the exclusion list.
C4_ExcludedNeverStored ==
    \A r \in store \cup txn : ~OnExclusionList(r.employer_id)

\* a page with an excluded employer's posting that has e-mail and phone was
\* saved, and the save stored something else
C4_Witness ==
    /\ pc = "saved"
    /\ store # {}
    /\ \E j \in 1..Len(data.items) :
          /\ OnExclusionList(data.items[j].employer_id)
          /\ EmailOf(data.items[j]) # ""
          /\ \E n \in 1..Len(PhonesOf(data.items[j])) :
                PhonesOf(data.items[j])[n].number # ""

\* the number a stored phone entry was rendered from
NumberIn(phone_full) == phone_full[6]

\* C5: no row has an empty e-mail and only empty phone numbers (or none);
\* after the save of a page, every posting of it with a non-empty e-mail, no
\* phones and an employer off the list has a row with its id.
C5_ContactGate ==
    /\ \A r \in store \cup txn :
          r.email # "" \/ \E n \in 1..Len(r.phones) : NumberIn(r.phones[n]) # ""
    /\ pc = "saved" =>
          \A j \in 1..Len(data.items) :
              ( /\ EmailOf(data.items[j]) # ""
                /\ PhonesOf(data.items[j]) = <<>>
                /\ ~OnExclusionList(data.items[j].employer_id) )
              => \E r \in store : r.id = data.items[j].id

\* a saved page held a posting with only empty phone numbers and one with
\* e-mail only
C5_Witness ==
    /\ pc = "saved"
    /\ \E j \in 1..Len(data.items) :
          /\ EmailOf(data.items[j]) = ""
          /\ PhonesOf(data.items[j]) # <<>>
          /\ \A n \in 1..Len(PhonesOf(data.items[j])) :
                PhonesOf(data.items[j])[n].number = ""
    /\ \E j \in 1..Len(data.items) :
          /\ EmailOf(data.items[j]) # ""
          /\ PhonesOf(data.items[j]) = <<>>
          /\ ~OnExclusionList(data.items[j].employer_id)

\* C6 as stated, page by page: the walk of a window starts with a total of 0
\* and the save of each page adds to it the number of the page's postings
\* that passed the filter and were stored, so that the total reported when
\* the walk ends is the number of postings of the window that were stored.
C6_TotalIsStoredCount ==
    [][ /\ pc = "loop" => total_saved' = 0
        /\ pc = "saved" => total_saved' = total_saved + AcceptedCount(data.items) ]_vars

\* C7: the step on which a fetch fails leaves the store as it is and takes
\* the error to main; from then on no request is sent, no window is begun,
\* no page is saved and the store does not change.
C7_HttpErrorAborts ==
    [][ /\ (~failed /\ failed') =>
              /\ store' = store
              /\ pc' = "http_error"
        /\ failed =>
              /\ req' = <<>> /\ reqCount' = reqCount
              /\ windows' = windows /\ page' = page
              /\ store' = store
              /\ pc' \in {"http_error", "raised"} ]_vars

\* the error came in a later window, after rows had been stored
C7_Witness ==
    /\ failed
    /\ pc = "raised"
    /\ Len(windows) >= 2
    /\ store # {}

\* C10 as stated: after a persistence failure, every accepted record of the
\* page whose insert ran before the failure has its row in the store.
C10_InsertsSurviveFailure ==
    pc = "store_error" =>
        \A j \in 1..(k - 1) :
            Accepted(data.items[j]) => \E r \in store : r.id = data.items[j].id

\* C10 amended: the inserts of a page are committed together after its last
\* record; while a save runs the committed store does not change, and a
\* failure leaves it as it was before the save began.
C10_FailedBatchRolledBack ==
    [][ /\ (pc = "save" /\ pc' # "saved") => store' = store
        /\ pc' = "store_error" => (store' = store /\ txn' = store) ]_vars

\* a save failed after an insert of the page had run; the row is not in the
\* store, rows of earlier pages are
C10_Witness ==
    /\ pc = "store_error"
    /\ store # {}
    /\ \E j \in 1..(k - 1) :
          /\ Accepted(data.items[j])
          /\ ~\E r \in store : r.id = data.items[j].id

(* ------------------- stored ids and accepted postings ------------------ *)
\* the ids of the rows of a table
IdsOf(table) == {r.id : r \in table}

\* the posting passes the Record Filter: its employer is off the exclusion
\* list and it has a non-empty e-mail or a phone with a non-empty number
PassesFilter(vac) ==
    /\ ~OnExclusionList(vac.employer_id)
    /\ \/ EmailOf(vac) # ""
       \/ \E n \in 1..Len(PhonesOf(vac)) : PhonesOf(vac)[n].number # ""

\* the ids of the postings of a page that pass the Record Filter
PassingIds(items) == {items[j].id : j \in {n \in 1..Len(items) : PassesFilter(items[n])}}

\* C11: the step that completes the save of a page adds to the stored ids
\* exactly the ids of the postings of that page that pass the filter, and no
\* other step changes the stored ids; so the stored ids are at all times the
\* ids of the accepted postings of the pages saved so far, in whatever order
\* the pages came.
C11_StoredIdsAreAcceptedIds ==
    [][ IF pc = "save" /\ pc' = "saved"
        THEN IdsOf(store') = IdsOf(store) \cup PassingIds(data.items)
        ELSE IdsOf(store') = IdsOf(store) ]_vars

\* a page with a passing and a rejected posting has been saved on top of a
\* store that held another id
C11_Witness ==
    /\ pc = "saved"
    /\ Cardinality(IdsOf(store)) >= 2
    /\ PassingIds(data.items) # {}
    /\ PassingIds(data.items) # IdsOf(store)
    /\ \E j \in 1..Len(data.items) : ~PassesFilter(data.items[j])

(* ----------------------------- empty page ------------------------------ *)
\* C12: when a response carries no items the walk ends with that step:
\* save_to_db is not entered (no connection, the store and the count stay),
\* and from the end of the walk no request of that window follows.
C12_EmptyPageEndsWalk ==
    [][ /\ (pc = "await" /\ ~failed' /\ data'.items = <<>>) =>
              /\ pc' = "walk_done"
              /\ conn' = conn /\ store' = store
              /\ total_saved' = total_saved /\ page' = page
        /\ pc = "walk_done" =>
              /\ pc' \in {"loop", "returned"}
              /\ req' = <<>> /\ reqCount' = reqCount
              /\ store' = store /\ conn' = conn ]_vars

\* after a page with postings, the next page of the window came back empty
C12_Witness ==
    /\ pc = "walk_done"
    /\ data.items = <<>>
    /\ page >= 1
    /\ total_saved >= 1

(* ------------------------- continuing the walk ------------------------- *)
\* the page count the last response reported, 1 when it reported none
ReportedPageCount == IF data.pages = <<>> THEN 1 ELSE data.pages[1]

\* the walk of the current window is over
WalkOver == pc \in {"walk_done", "http_error", "store_error"}

\* C13: after the save of a non-empty page p the walk goes on to request
\* page p + 1 exactly when p + 1 is below the reported page count and below
\* 200, and ends otherwise; the request that follows asks for that index;
\* and, every request being answered, a walk that has begun ends.
C13_NextPageRule ==
    /\ [][ pc = "saved" =>
               /\ pc' \in {"request", "walk_done"}
               /\ page' = page + 1
               /\ pc' = "request" <=>
                     (page + 1 < ReportedPageCount /\ page + 1 < 200) ]_vars
    /\ [][ pc = "request" =>
               /\ pc' = "await"
               /\ Len(req') = 1
               /\ req'[1].page = page ]_vars
    /\ (pc = "request") ~> WalkOver

\* the walk went on after page 0 and ended after page 1, the last page the
\* response reported
C13_Witness ==
    /\ pc = "walk_done"
    /\ page = 2
    /\ data.items # <<>>
    /\ data.pages = <<2>>

(* --------------------------- one at a time ----------------------------- *)
\* C14: a window is handed to parse_by_date_range only from the loop of
\* parse_with_parts, which is reached from the entry or from the end of the
\* previous walk, once per window and later than the window before; a
\* request is sent only when none is pending and no save is running, it is
\* for the newest window, and the n-th request of a window asks for page
\* n - 1; every page requested before it was saved and committed.
C14_StrictlySequential ==
    [][ /\ pc' = "loop" /\ pc # "loop" => pc \in {"entry", "walk_done"}
        /\ windows' # windows =>
              /\ pc = "loop" /\ req = <<>>
              /\ Len(windows') = Len(windows) + 1
              /\ \A j \in 1..Len(windows) : windows'[j] = windows[j]
              /\ Len(windows) > 0 =>
                    FirstDay(windows'[Len(windows')]) > LastDay(windows[Len(windows)])
              /\ reqCount' = 0
        /\ req' # <<>> /\ req' # req =>
              /\ pc = "request" /\ req = <<>>
              /\ txn = store /\ pc' = "await"
              /\ req'[1].page = reqCount
              /\ reqCount' = reqCount + 1
              /\ total_saved >= reqCount
              /\ req'[1].date_from = windows[Len(windows)].date_from
              /\ req'[1].date_to = windows[Len(windows)].date_to
        /\ reqCount' # reqCount => (windows' # windows \/ req' # <<>>) ]_vars

\* the second page of the second window has been requested
C14_Witness ==
    /\ pc = "await"
    /\ Len(windows) = 2
    /\ req # <<>>
    /\ req[1].page = 1
    /\ reqCount = 2

(* -------------------------- window bounds ------------------------------ *)
\* C15: for valid input, also with more parts than days, every window handed
\* to parse_by_date_range starts no later than it ends, starts no earlier
\* than the start date and ends no later than the end date.
C15_WindowsInsideRange ==
    InputIsValid =>
        \A j \in 1..Len(windows) :
            /\ FirstDay(windows[j]) <= LastDay(windows[j])
            /\ ToOrdinal(date_from) <= FirstDay(windows[j])
            /\ LastDay(windows[j]) <= ToOrdinal(date_to)

\* more parts than days: the window of the last day has just been handed over
C15_Witness ==
    /\ InputIsValid
    /\ pc = "request"
    /\ parts > RangeDays
    /\ RangeDays >= 3
    /\ Len(windows) = RangeDays
    /\ LastDay(windows[Len(windows)]) = ToOrdinal(date_to)

(* ------------------- connection and pending request -------------------- *)
\* C16: whenever a page request is pending the store connection is closed
\* and nothing is uncommitted, and a connection is opened only by the step
\* that receives a (successful) response.
C16_NoConnectionDuringFetch ==
    [][ /\ req' # <<>> => (conn' = "closed" /\ txn' = store')
        /\ (conn' = "open" /\ conn # "open") =>
              /\ pc = "await" /\ req # <<>>
              /\ req' = <<>> /\ ~failed' ]_vars

\* a page was saved and committed, and the next page is being fetched
C16_Witness ==
    /\ pc = "await"
    /\ req # <<>>
    /\ page >= 1
    /\ store # {}
    /\ conn = "closed"

(* ------------------------- main: export or raise ----------------------- *)
\* C17: the export starts only from the normal return of the ingestion, with
\* no page fetch failed and, for valid input, the last window ending at the
\* end date; after an HTTP error the only steps are the one token refresh and
\* the re-raise: no window, no request, no change of the store, no export.
C17_ExportOnlyAfterCleanIngest ==
    [][ /\ (pc' = "exported" /\ pc # "exported") =>
              /\ pc = "returned" /\ ~failed /\ refreshes = 0
              /\ InputIsValid =>
                    /\ windows # <<>>
                    /\ LastDay(windows[Len(windows)]) = ToOrdinal(date_to)
        /\ failed' =>
              /\ pc' \in {"http_error", "raised"}
              /\ pc' = "raised" <=> refreshes' = 1
              /\ pc' = "http_error" <=> refreshes' = 0
        /\ failed =>
              /\ windows' = windows /\ reqCount' = reqCount /\ req' = <<>>
              /\ store' = store
        /\ refreshes' # refreshes =>
              /\ pc = "http_error" /\ failed
              /\ refreshes' = refreshes + 1 ]_vars

\* the second page of the first of two windows failed: the token was
\* refreshed once and the error left main
C17_Witness ==
    /\ pc = "raised"
    /\ refreshes = 1
    /\ page >= 1
    /\ Len(windows) = 1
    /\ parts >= 2
    /\ ToOrdinal(date_to) > ToOrdinal(date_from)

(* ----------------------------- bearer token ---------------------------- *)
\* C18: no step changes the access token the run was started with, and every
\* page request, of whatever window and page, carries that token as its
\* bearer token.
C18_TokenUnchanged ==
    [][ /\ access_token' = access_token
        /\ req' # <<>> =>
              req'[1].headers.Authorization = <<"Bearer ", access_token>> ]_vars

\* a request of a later window of a run started with the second token
C18_Witness ==
    /\ pc = "await"
    /\ access_token = "token-2"
    /\ Len(windows) >= 3
    /\ req # <<>>
    /\ req[1].headers.Authorization[2] = "token-2"

====
